---------------------------- MODULE Spec2Model ----------------------------
(***************************************************************************)
(* BoiledEggHandler (src/boiledegg_handler.py): the BOILED-Egg classifier. *)
(*                                                                         *)
(* Numbers.  A descriptor returned by RDKit is a float; the model holds it *)
(* in eighths (e stands for e/8, exactly representable in binary), and a   *)
(* value rounded by round(x, 2) in hundredths (h stands for h/100).        *)
(* Polygon vertices are in hundredths too.  float(True) = 1.0 is 100.      *)
(*                                                                         *)
(* Values.  Python's None is the string "None" where a string is expected  *)
(* and the empty sequence where a polygon is expected.  A returned value   *)
(* is a record tagged by kind: "dict" (the res_entry mapping), "list" (a   *)
(* Python list, its items in order) or "raise" (an exception left the      *)
(* method).                                                                *)
(*                                                                         *)
(* The class is taken as defined: the return annotation of line 20,        *)
(* Dict[List[str, Any]], is not evaluated when the method is defined.      *)
(***************************************************************************)
EXTENDS Integers, Sequences, FiniteSets, TLC

VARIABLES
    models,     \* handler.models: property name -> polygon (or None)
    rdkit,      \* the descriptor source: SMILES -> molecule (or None)
    pc,         \* "idle": no call outstanding; "returned": a call has returned
    call,       \* the arguments of the last call
    ret,        \* what the last call returned (or raised)
    touched,    \* the boundary models the last call ran point.within on
    memo,       \* an earlier call kept by the caller: [call, ret]
    threads,    \* concurrent calls: thread -> its position, arguments and result
    frames      \* concurrent calls: frame -> the call's local variables

vars == <<models, rdkit, pc, call, ret, touched, memo, threads, frames>>

(***************************************************************************)
(* Bounds of the model.                                                    *)
(***************************************************************************)
MaxProps == 2        \* longest property_list of a single call
MaxBatch == 3        \* longest smiles_list of a batch call
GridMax == 6         \* largest raw descriptor, in eighths
HistMaxProps == 1    \* longest property_list in the call-history specification
HistMaxBatch == 1    \* longest smiles_list in the call-history specification

SeqsUpTo(S, n) == UNION {[1..k -> S] : k \in 0..n}

None == "None"
NoPolygon == <<>>

(***************************************************************************)
(* Inputs.                                                                 *)
(***************************************************************************)
AVAILABLE_PROPERTIES == <<"BBB", "GIA", "TPSA", "WLogP">>

Available == {AVAILABLE_PROPERTIES[i] : i \in DOMAIN AVAILABLE_PROPERTIES}

\* Property names a caller may send: the supported ones and an unknown one.
PropertyNames == Available \cup {"MW"}

\* "" is empty, " " is blank, "C1CC" does not parse (an unclosed ring).
Smiles == {"", " ", "C1CC", "CCO", "c1ccccc1"}

(***************************************************************************)
(* The descriptor source (rdkit).  A molecule is [ok, tpsa, logp], the     *)
(* descriptors in eighths; ok = FALSE is MolFromSmiles returning None.     *)
(***************************************************************************)
NoMol == [ok |-> FALSE, tpsa |-> 0, logp |-> 0]

Mol(t, l) == [ok |-> TRUE, tpsa |-> t, logp |-> l]

RawPoints == {Mol(t, l) : t \in 0..GridMax, l \in (-1)..GridMax}

\* The tables the library may be: "C1CC" never parses, the blank string
\* parses to the empty molecule or not at all, and the descriptors of a
\* molecule are whatever the library computes.
DescriptorSources(points) ==
    {[s \in Smiles |->
        CASE s = "" -> Mol(0, 0)
          [] s = " " -> blank
          [] s = "C1CC" -> NoMol
          [] s = "CCO" -> m
          [] OTHER -> Mol(0, 3)] : blank \in {NoMol, Mol(0, 0)}, m \in points}

MolFromSmiles(lib, smi) == lib[smi]

\* round(x, 2) of x = e/8: correctly rounded, ties to even.
round(e) ==
    LET h == 25 * e            \* e/8 in two-hundredths
        q == h \div 2
    IN IF h % 2 = 0 THEN q ELSE IF q % 2 = 0 THEN q ELSE q + 1

TPSA(mol) == mol.tpsa

MolLogP(mol) == mol.logp

\* A Python value held in batch_preds: a bool or a float.
Bool(b) == [type |-> "bool", b |-> b, x |-> 0]

Float(x) == [type |-> "float", b |-> FALSE, x |-> x]

\* float(v): a bool becomes 1.0 or 0.0, a float stays.
float(v) == IF v.type = "bool" THEN (IF v.b THEN 100 ELSE 0) ELSE v.x

(***************************************************************************)
(* Geometry (shapely).  A polygon is the sequence of its ring's vertices;  *)
(* Polygon() closes the ring.  point.within(polygon) holds iff the point   *)
(* is in the polygon's interior: a point of the boundary is not within.    *)
(***************************************************************************)
Point(x, y) == <<x, y>>

Polygon(ring) == ring

Min(a, b) == IF a < b THEN a ELSE b

Max(a, b) == IF a > b THEN a ELSE b

Edge(poly, i) == <<poly[i], poly[(i % Len(poly)) + 1]>>

Cross(a, b, p) == (b[1] - a[1]) * (p[2] - a[2]) - (b[2] - a[2]) * (p[1] - a[1])

OnSegment(p, a, b) ==
    /\ Cross(a, b, p) = 0
    /\ Min(a[1], b[1]) <= p[1] /\ p[1] <= Max(a[1], b[1])
    /\ Min(a[2], b[2]) <= p[2] /\ p[2] <= Max(a[2], b[2])

OnBoundary(p, poly) ==
    \E i \in DOMAIN poly : OnSegment(p, Edge(poly, i)[1], Edge(poly, i)[2])

\* The edge a-b crosses the horizontal ray from p towards +x.
Crosses(p, a, b) ==
    /\ (a[2] > p[2]) # (b[2] > p[2])
    /\ LET d == b[2] - a[2]
           lhs == (p[1] - a[1]) * d
           rhs == (p[2] - a[2]) * (b[1] - a[1])
       IN IF d > 0 THEN lhs < rhs ELSE lhs > rhs

Crossings(p, poly) ==
    Cardinality({i \in DOMAIN poly : Crosses(p, Edge(poly, i)[1], Edge(poly, i)[2])})

InsideOrOn(p, poly) == OnBoundary(p, poly) \/ Crossings(p, poly) % 2 = 1

\* point.intersects(polygon): the boundary counts.
intersects(p, poly) == InsideOrOn(p, poly)

within(p, poly) == ~OnBoundary(p, poly) /\ Crossings(p, poly) % 2 = 1

(***************************************************************************)
(* The boundary data (boiled_egg.BoiledEggBBB.ml_tensor and                *)
(* BoiledEggGIA.ml_tensor): fixed vertex lists the handler is built from.  *)
(***************************************************************************)
Triangle == <<<<0, 0>>, <<50, 0>>, <<0, 50>>>>

Square == <<<<-12, -12>>, <<62, -12>>, <<62, 62>>, <<-12, 62>>>>

LShape == <<<<0, 0>>, <<75, 0>>, <<75, 25>>, <<25, 25>>, <<25, 75>>, <<0, 75>>>>

Diamond == <<<<38, -12>>, <<88, 38>>, <<38, 88>>, <<-12, 38>>>>

MlTensors == {[BBB |-> Triangle, GIA |-> Square], [BBB |-> LShape, GIA |-> Diamond]}

(***************************************************************************)
(* BoiledEggHandler.                                                       *)
(***************************************************************************)
\* __init__ then _load_models: the handler's models, built from the data.
load_models(tensors) ==
    [p \in Available |->
        CASE p = "BBB" -> Polygon(tensors.BBB)
          [] p = "GIA" -> Polygon(tensors.GIA)
          [] OTHER -> NoPolygon]

\* What a method call gives: the value returned (or the exception raised),
\* the boundary models it tested the point against, and self.models after.
Outcome(value, tests, self) == [ret |-> value, touched |-> tests, models |-> self]

EmptyList == [kind |-> "list", items |-> <<>>]

Raised(exc) == [kind |-> "raise", exc |-> exc]

IsIn(x, seq) == \E i \in DOMAIN seq : seq[i] = x

\* Line 25 without its condition.
valid_props_unfiltered(property_list) == property_list

\* Line 25 taking every available property, requested or not.
valid_props_all(property_list) == AVAILABLE_PROPERTIES

valid_props(property_list) ==
    SelectSeq(property_list, LAMBDA p : IsIn(p, AVAILABLE_PROPERTIES))

\* Lines 39-47: the predictions, keyed by the valid property names.
batch_preds(self, valid, tpsa, wlogp) ==
    LET point == Point(tpsa, wlogp)
    IN [p \in {q \in Available : IsIn(q, valid)} |->
          CASE p = "BBB" -> Bool(within(point, self["BBB"]))
            [] p = "GIA" -> Bool(within(point, self["GIA"]))
            [] p = "TPSA" -> Float(tpsa)
            [] OTHER -> Float(wlogp)]

\* Lines 49-63: the record returned for a molecule.
res_entry(smi, valid, preds) ==
    [kind |-> "dict",
     smiles |-> smi,
     status |-> "success",
     results |-> [p \in {valid[i] : i \in DOMAIN valid} |->
                    [property |-> p, status |-> "success",
                     results |-> float(preds[p]), error |-> None]],
     error |-> None]

\* Line 67: the one-item list the except clause returns.
error_list(smi, e) ==
    [kind |-> "list",
     items |-> <<[kind |-> "dict", smiles |-> smi, status |-> "error",
                  results |-> <<>>, error |-> e]>>]

\* Lines 49-67: batch_preds[prop] raises KeyError for a missing key, which
\* the except clause turns into the error list.
try_result(smi, valid, preds) ==
    IF \A i \in DOMAIN valid : valid[i] \in DOMAIN preds
    THEN res_entry(smi, valid, preds)
    ELSE error_list(smi, "KeyError")

\* The boundary models lines 40-43 run point.within on.
tested(valid) == {p \in {"BBB", "GIA"} : IsIn(p, valid)}

\* process_multiple_properties(self, smi, property_list).  Line 21 returns
\* the empty list for the empty string.  For an unparseable string line 31
\* prints and line 33 then calls Descriptors.TPSA(None), which raises
\* outside the try: the exception leaves the method.
\* Line 41 assigning to self.models["BBB"] instead of batch_preds["BBB"].
process_multiple_properties_clobber(self, lib, smi, property_list) ==
    IF smi = ""
    THEN Outcome(EmptyList, {}, self)
    ELSE LET valid == valid_props(property_list)
             mol == MolFromSmiles(lib, smi)
         IN IF ~mol.ok
            THEN Outcome(Raised("ArgumentError"), {}, self)
            ELSE LET tpsa == round(TPSA(mol))
                     wlogp == round(MolLogP(mol))
                 IN Outcome(try_result(smi, valid,
                                       batch_preds(self, valid, tpsa, wlogp)),
                            tested(valid),
                            IF IsIn("BBB", valid)
                            THEN [self EXCEPT !["BBB"] = NoPolygon]
                            ELSE self)

process_multiple_properties(self, lib, smi, property_list) ==
    IF smi = ""
    THEN Outcome(EmptyList, {}, self)
    ELSE LET valid == valid_props(property_list)
             mol == MolFromSmiles(lib, smi)
         IN IF ~mol.ok
            THEN Outcome(Raised("ArgumentError"), {}, self)
            ELSE LET tpsa == round(TPSA(mol))
                     wlogp == round(MolLogP(mol))
                 IN Outcome(try_result(smi, valid,
                                       batch_preds(self, valid, tpsa, wlogp)),
                            tested(valid), self)

RECURSIVE batch_loop(_, _, _, _, _)
\* Lines 71-73 from position i on: acc holds res_ls (and self) so far.  An
\* exception of process_multiple_properties is not caught: it ends the loop
\* and leaves the batch method, and res_ls is lost.
batch_loop(acc, lib, smiles_list, property_list, i) ==
    IF i > Len(smiles_list)
    THEN acc
    ELSE LET one == process_multiple_properties(acc.models, lib, smiles_list[i],
                                                property_list)
             tests == acc.touched \cup one.touched
         IN IF one.ret.kind = "raise"
            THEN Outcome(one.ret, tests, one.models)
            ELSE batch_loop(Outcome([kind |-> "list",
                                     items |-> Append(acc.ret.items, one.ret)],
                                    tests, one.models),
                            lib, smiles_list, property_list, i + 1)

\* The batch method starting from __init__'s line 13 without _load_models.
process_multiple_properties_batch_reset(self, lib, smiles_list, property_list) ==
    batch_loop(Outcome(EmptyList, {}, [p \in Available |-> NoPolygon]),
               lib, smiles_list, property_list, 1)

process_multiple_properties_batch(self, lib, smiles_list, property_list) ==
    batch_loop(Outcome(EmptyList, {}, self), lib, smiles_list, property_list, 1)

(***************************************************************************)
(* Sequential use: one caller, one call at a time.                         *)
(***************************************************************************)
NoCall == [op |-> "none", smi |-> "", smiles_list |-> <<>>, property_list |-> <<>>]

NoRet == [kind |-> "none"]

NoMemo == [call |-> NoCall, ret |-> NoRet]

(***************************************************************************)
(* Concurrent use: the threads of the server call the one handler.  A call *)
(* is cut where it reads the handler; its locals live in a frame.          *)
(***************************************************************************)
Threads == {"t1", "t2"}

\* The property lists the concurrent callers send.
ParProps ==
    {<<>>, <<"BBB">>, <<"GIA", "TPSA">>, <<"MW", "WLogP", "BBB">>,
     <<"BBB", "GIA", "TPSA", "WLogP">>}

\* The locals kept on the handler object: one frame for every thread.
SharedFrame(t) == "t1"

\* The frame holding the locals of thread t's call: its own.
Frame(t) == t

NoFrame ==
    [smi |-> "", property_list |-> <<>>, valid |-> <<>>, mol |-> NoMol,
     tpsa |-> 0, wlogp |-> 0, preds |-> <<>>]

Idle ==
    [pc |-> "idle", smi |-> "", property_list |-> <<>>, ret |-> NoRet,
     overlapped |-> FALSE]

\* The handler is constructed once, from one of the data sets.
Construct(sources) ==
    /\ \E tensors \in MlTensors : models = load_models(tensors)
    /\ rdkit \in sources
    /\ pc = "idle"
    /\ call = NoCall
    /\ ret = NoRet
    /\ touched = {}
    /\ memo = NoMemo
    /\ threads = [t \in Threads |-> Idle]
    /\ frames = [t \in Threads |-> NoFrame]

Init == Construct(DescriptorSources(RawPoints))

InitSmall == Construct(DescriptorSources({Mol(2, 1)}))

Returns(c, o) ==
    /\ pc' = "returned"
    /\ call' = c
    /\ ret' = o.ret
    /\ touched' = o.touched
    /\ models' = o.models
    /\ UNCHANGED <<rdkit, memo, threads, frames>>

Single(maxProps) ==
    /\ pc = "idle"
    /\ \E smi \in Smiles, property_list \in SeqsUpTo(PropertyNames, maxProps) :
        \E o \in {process_multiple_properties(models, rdkit, smi, property_list)} :
            Returns([op |-> "single", smi |-> smi, smiles_list |-> <<>>,
                     property_list |-> property_list], o)

Batch(maxBatch, maxProps) ==
    /\ pc = "idle"
    /\ \E smiles_list \in SeqsUpTo(Smiles, maxBatch),
          property_list \in SeqsUpTo(PropertyNames, maxProps) :
        \E o \in {process_multiple_properties_batch(models, rdkit, smiles_list,
                                                    property_list)} :
            Returns([op |-> "batch", smi |-> "", smiles_list |-> smiles_list,
                     property_list |-> property_list], o)

CallSingle == Single(MaxProps)

CallBatch == Batch(MaxBatch, MaxProps)

HistSingle == Single(HistMaxProps)

HistBatch == Batch(HistMaxBatch, HistMaxProps)

\* The caller is done with the returned value.
Collect ==
    /\ pc = "returned"
    /\ pc' = "idle"
    /\ call' = NoCall
    /\ ret' = NoRet
    /\ touched' = {}
    /\ UNCHANGED <<models, rdkit, memo, threads, frames>>

\* The caller keeps the first result of its choice to compare later ones to.
Remember ==
    /\ pc = "returned"
    /\ call.op = "single"
    /\ memo = NoMemo
    /\ memo' = [call |-> call, ret |-> ret]
    /\ pc' = "idle"
    /\ call' = NoCall
    /\ ret' = NoRet
    /\ touched' = {}
    /\ UNCHANGED <<models, rdkit, threads, frames>>

Next == CallSingle \/ Collect

Spec == Init /\ [][Next]_vars

NextBatch == CallSingle \/ CallBatch \/ Collect

SpecBatch == InitSmall /\ [][NextBatch]_vars

NextHist == HistSingle \/ HistBatch \/ Remember \/ Collect

SpecHist == InitSmall /\ [][NextHist]_vars

\* Thread t takes a step to position p (with result r when it returns);
\* every other thread that is inside a call has now been overlapped.
Moves(t, p, r) ==
    threads' = [u \in Threads |->
                  IF u = t
                  THEN [threads[t] EXCEPT !.pc = p, !.ret = r]
                  ELSE IF threads[u].pc \in {"idle", "done"}
                       THEN threads[u]
                       ELSE [threads[u] EXCEPT !.overlapped = TRUE]]

seqVars == <<models, rdkit, pc, call, ret, touched, memo>>

\* Line 20: the call binds its parameters.
ParCall(t) ==
    /\ threads[t].pc = "idle"
    /\ \E smi \in Smiles, property_list \in ParProps :
        /\ threads' = [u \in Threads |->
                         IF u = t
                         THEN [pc |-> "L21", smi |-> smi,
                               property_list |-> property_list, ret |-> NoRet,
                               overlapped |-> FALSE]
                         ELSE IF threads[u].pc \in {"idle", "done"}
                              THEN threads[u]
                              ELSE [threads[u] EXCEPT !.overlapped = TRUE]]
        /\ frames' = [frames EXCEPT ![Frame(t)] =
                         [NoFrame EXCEPT !.smi = smi,
                                         !.property_list = property_list]]
    /\ UNCHANGED seqVars

\* Lines 21-22.
ParGuard(t) ==
    /\ threads[t].pc = "L21"
    /\ IF frames[Frame(t)].smi = ""
       THEN Moves(t, "done", EmptyList)
       ELSE Moves(t, "L25", NoRet)
    /\ UNCHANGED <<seqVars, frames>>

\* Lines 25-31.
ParParse(t) ==
    /\ threads[t].pc = "L25"
    /\ LET f == frames[Frame(t)]
       IN frames' = [frames EXCEPT ![Frame(t)] =
                        [f EXCEPT !.valid = valid_props(f.property_list),
                                  !.mol = MolFromSmiles(rdkit, f.smi)]]
    /\ Moves(t, "L33", NoRet)
    /\ UNCHANGED seqVars

\* Lines 33-35.
ParDescriptors(t) ==
    /\ threads[t].pc = "L33"
    /\ LET f == frames[Frame(t)]
       IN IF ~f.mol.ok
          THEN /\ Moves(t, "done", Raised("ArgumentError"))
               /\ UNCHANGED frames
          ELSE /\ Moves(t, "L40", NoRet)
               /\ frames' = [frames EXCEPT ![Frame(t)] =
                                [f EXCEPT !.tpsa = round(TPSA(f.mol)),
                                          !.wlogp = round(MolLogP(f.mol))]]
    /\ UNCHANGED seqVars

\* Lines 40-41 (name = "BBB", then line 42) and 42-43 ("GIA", then line 44):
\* the read of self.models.
ParWithin(t, here, name, next) ==
    /\ threads[t].pc = here
    /\ LET f == frames[Frame(t)]
       IN frames' = [frames EXCEPT ![Frame(t)] =
                        IF IsIn(name, f.valid)
                        THEN [f EXCEPT !.preds =
                                (name :> Bool(within(Point(f.tpsa, f.wlogp),
                                                     models[name]))) @@ f.preds]
                        ELSE f]
    /\ Moves(t, next, NoRet)
    /\ UNCHANGED seqVars

ParBBB(t) == ParWithin(t, "L40", "BBB", "L42")

ParGIA(t) == ParWithin(t, "L42", "GIA", "L44")

\* Lines 44-67.
ParBuild(t) ==
    /\ threads[t].pc = "L44"
    /\ LET f == frames[Frame(t)]
           withTpsa == IF IsIn("TPSA", f.valid)
                       THEN ("TPSA" :> Float(f.tpsa)) @@ f.preds ELSE f.preds
           preds == IF IsIn("WLogP", f.valid)
                    THEN ("WLogP" :> Float(f.wlogp)) @@ withTpsa ELSE withTpsa
       IN Moves(t, "done", try_result(f.smi, f.valid, preds))
    /\ UNCHANGED <<seqVars, frames>>

\* The caller takes the result; the frame is gone.
ParReturn(t) ==
    /\ threads[t].pc = "done"
    /\ threads' = [threads EXCEPT ![t] = Idle]
    /\ frames' = [frames EXCEPT ![Frame(t)] = NoFrame]
    /\ UNCHANGED seqVars

NextPar ==
    \E t \in Threads :
        \/ ParCall(t)
        \/ ParGuard(t)
        \/ ParParse(t)
        \/ ParDescriptors(t)
        \/ ParBBB(t)
        \/ ParGIA(t)
        \/ ParBuild(t)
        \/ ParReturn(t)

SpecPar == InitSmall /\ [][NextPar]_vars

(***************************************************************************)
(* Properties.                                                             *)
(***************************************************************************)
SingleReturned == pc = "returned" /\ call.op = "single"

BatchReturned == pc = "returned" /\ call.op = "batch"

\* The input fails: it is empty, or the parser returns no molecule for it.
Fails(smi) == smi = "" \/ ~MolFromSmiles(rdkit, smi).ok

IsRecord(r, status) == r.kind = "dict" /\ r.status = status

Requested(property_list) == {property_list[i] : i \in DOMAIN property_list}

\* C1: in a batch, a failing input i gives a compound record with
\* status=error at position i, and every other input its own success record.
C1_BatchIsolation ==
    BatchReturned =>
        /\ ret.kind = "list"
        /\ Len(ret.items) = Len(call.smiles_list)
        /\ \A i \in DOMAIN call.smiles_list :
              IF Fails(call.smiles_list[i])
              THEN IsRecord(ret.items[i], "error")
              ELSE IsRecord(ret.items[i], "success")

\* C2: a batch returns exactly one compound record per input, in input
\* order, the record at position i carrying smiles_list[i].
C2_BatchCountAndOrder ==
    BatchReturned =>
        /\ ret.kind = "list"
        /\ DOMAIN ret.items = DOMAIN call.smiles_list
        /\ \A i \in DOMAIN call.smiles_list :
              /\ ret.items[i].kind = "dict"
              /\ ret.items[i].smiles = call.smiles_list[i]

\* C3: an empty or blank SMILES gives a compound record with status=error,
\* an empty results mapping and an error string.
C3_BlankIsErrorRecord ==
    (SingleReturned /\ call.smi \in {"", " "}) =>
        /\ IsRecord(ret, "error")
        /\ DOMAIN ret.results = {}
        /\ ret.error # None

\* C4: an unparseable SMILES gives a compound record with status=error; no
\* exception leaves the method.
C4_UnparseableIsErrorRecord ==
    (SingleReturned /\ call.smi # "" /\ ~MolFromSmiles(rdkit, call.smi).ok) =>
        /\ ret.kind # "raise"
        /\ IsRecord(ret, "error")

\* C5: a parseable SMILES gives status=success and a results mapping keyed
\* by exactly the requested names that are supported, every entry a success.
C5_KeysAreSupportedRequested ==
    (SingleReturned /\ ~Fails(call.smi)) =>
        /\ IsRecord(ret, "success")
        /\ ret.error = None
        /\ DOMAIN ret.results = Requested(call.property_list) \cap Available
        /\ \A p \in DOMAIN ret.results :
              /\ ret.results[p].property = p
              /\ ret.results[p].status = "success"
              /\ ret.results[p].error = None

C5_Witness ==
    /\ SingleReturned
    /\ call.smi = "CCO"
    /\ call.property_list = <<"MW", "TPSA">>
    /\ IsRecord(ret, "success")
    /\ DOMAIN ret.results = {"TPSA"}

\* The regions the boundary data enclose, by their inequalities.
Abs(x) == IF x < 0 THEN -x ELSE x

RegionInterior(poly, p) ==
    LET x == p[1]
        y == p[2]
    IN CASE poly = Triangle -> x > 0 /\ y > 0 /\ x + y < 50
         [] poly = Square -> -12 < x /\ x < 62 /\ -12 < y /\ y < 62
         [] poly = LShape ->
              x > 0 /\ y > 0 /\ ((x < 75 /\ y < 25) \/ (x < 25 /\ y < 75))
         [] poly = Diamond -> Abs(x - 38) + Abs(y - 38) < 50
         [] OTHER -> FALSE

RegionClosed(poly, p) ==
    LET x == p[1]
        y == p[2]
    IN CASE poly = Triangle -> x >= 0 /\ y >= 0 /\ x + y <= 50
         [] poly = Square -> -12 <= x /\ x <= 62 /\ -12 <= y /\ y <= 62
         [] poly = LShape ->
              x >= 0 /\ y >= 0 /\ ((x <= 75 /\ y <= 25) \/ (x <= 25 /\ y <= 75))
         [] poly = Diamond -> Abs(x - 38) + Abs(y - 38) <= 50
         [] OTHER -> FALSE

\* The point (TPSA, WLogP) of the last call's molecule.
CallPoint ==
    LET mol == MolFromSmiles(rdkit, call.smi)
    IN Point(round(TPSA(mol)), round(MolLogP(mol)))

Classified(name) ==
    SingleReturned /\ ret.kind = "dict" /\ name \in DOMAIN ret.results

\* C6 as stated: containment is boundary-inclusive; a point of the closed
\* region (interior, edge or vertex) gives 1.0 and a point outside 0.0.
C6_BoundaryInclusive ==
    \A name \in {"BBB", "GIA"} :
        Classified(name) =>
            ret.results[name].results =
                IF RegionClosed(models[name], CallPoint) THEN 100 ELSE 0

\* C6 as amended: containment is boundary-exclusive; a strictly interior
\* point gives 1.0, a point on an edge or vertex or outside gives 0.0.
C6_BoundaryExclusive ==
    \A name \in {"BBB", "GIA"} :
        Classified(name) =>
            ret.results[name].results =
                IF RegionInterior(models[name], CallPoint) THEN 100 ELSE 0

\* A point on an edge (not a vertex) of the BBB polygon, classified 0.0.
C6_Witness ==
    /\ Classified("BBB")
    /\ RegionClosed(models["BBB"], CallPoint)
    /\ ~RegionInterior(models["BBB"], CallPoint)
    /\ \A i \in DOMAIN models["BBB"] : models["BBB"][i] # CallPoint
    /\ ret.results["BBB"].results = 0

SameInputs ==
    /\ SingleReturned
    /\ memo # NoMemo
    /\ memo.call.smi = call.smi
    /\ memo.call.property_list = call.property_list

\* C7: whatever calls came between, two calls of process_multiple_properties
\* with the same smiles and property list return the same result.
C7_Deterministic == SameInputs => ret = memo.ret

C7_Witness ==
    /\ SameInputs
    /\ call.property_list = <<"BBB">>
    /\ IsRecord(ret, "success")
    /\ ret.results["BBB"].results = 100

\* C8: a call that ran interleaved with other calls returns what the call
\* returns when run alone.
C8_ParallelSafe ==
    \A t \in Threads :
        threads[t].pc = "done" =>
            threads[t].ret =
                process_multiple_properties(models, rdkit, threads[t].smi,
                                            threads[t].property_list).ret

\* Both calls ran overlapped, on different inputs, and both classified.
C8_Witness ==
    /\ \A t \in Threads :
          /\ threads[t].pc = "done"
          /\ threads[t].overlapped
          /\ IsRecord(threads[t].ret, "success")
          /\ "BBB" \in DOMAIN threads[t].ret.results
    /\ threads["t1"].smi # threads["t2"].smi

\* C9: no call, single or batch, successful or failing, changes
\* handler.models: they stay as _load_models built them.
C9_ModelsNeverChange == [][models' = models]_vars

\* A batch that failed half way has returned, the models still loaded.
C9_Witness ==
    /\ BatchReturned
    /\ Len(call.smiles_list) = 3
    /\ ret.kind = "raise"
    /\ touched # {}
    /\ \E tensors \in MlTensors : models = load_models(tensors)

\* C10: with only TPSA and/or WLogP requested, no containment test runs
\* and the results hold no BBB or GIA key.
C10_DescriptorsOnly ==
    (SingleReturned /\ Requested(call.property_list) \subseteq {"TPSA", "WLogP"}) =>
        /\ touched = {}
        /\ ret.kind = "dict" => DOMAIN ret.results \cap {"BBB", "GIA"} = {}

C10_Witness ==
    /\ SingleReturned
    /\ call.property_list = <<"TPSA", "WLogP">>
    /\ IsRecord(ret, "success")
    /\ DOMAIN ret.results = {"TPSA", "WLogP"}
    /\ touched = {}

=============================================================================
